---- MODULE Spec2Model ----
(***************************************************************************)
(* Model of the answer-capture / AI-response pipeline of AI-Mock-Interview.*)
(*                                                                         *)
(*   RecordAnswer  (src/src/components/record-answer.tsx): one mounted     *)
(*   component, its React state, the speech-to-text hook it consumes, the  *)
(*   scoring calls and save attempts it has in flight and the userAnswers  *)
(*   collection it writes to.  Specification: Spec.                        *)
(*                                                                         *)
(*   generateResult, as a function of what the scoring service answers,    *)
(*   over every short text of lexemes.  Specification: SpecEval.           *)
(*                                                                         *)
(*   FormMockInterview (src/unnamed/part_001 and the two copies of the     *)
(*   component in src/src/components/form-mock-interview.tsx): question    *)
(*   set generation and the write of the interview document.               *)
(*   Specification: SpecForm.                                              *)
(*                                                                         *)
(* Transcripts are sequences of one-character strings, so that lengths,    *)
(* trim() and join(" ") are computed character by character.  Texts that   *)
(* come back from the generative service are sequences of lexemes (a       *)
(* label, a white-space character, a digit, a word, a bracket, ...), the   *)
(* units the regular expressions of the source distinguish.                *)
(***************************************************************************)
EXTENDS Integers, Sequences, FiniteSets, Bags, TLC

VARIABLES
    results,         \* useSpeechToText: results (final fragments since mount)
    interimResult,   \* useSpeechToText: interimResult (<<>> when undefined)
    isRecording,     \* useSpeechToText: isRecording
    lateDelivery,    \* capture source: a final fragment is still due after stop()
    userAnswer,      \* useState("")
    isAiGenerating,  \* useState(false)
    aiResult,        \* useState<AIResponse | null>(null)
    aiStale,         \* history: aiResult came from a call started before the last reset
    open,            \* useState(false)
    loading,         \* useState(false)
    calls,           \* bag of the scoring calls in flight (generateWithGemini awaited)
    saves,           \* save attempts in flight (getDocs / addDoc awaited)
    userAnswers,     \* Firestore collection "userAnswers"
    toast,           \* notice shown by the last step ("none" when it shows none)
    question,        \* the question prop
    startedAt,       \* history: number of results when capture was last started
    aiScored,        \* history: the userAns argument of the call aiResult came from
    tabs,            \* SpecTabs: the state of each of two mounted components
    evalResp,        \* SpecEval: what generateWithGemini settled with
    evalOut,         \* SpecEval: what generateResult returned (Null before it ran)
    build,           \* SpecForm: which copy of FormMockInterview is mounted
    formData,        \* SpecForm: the submitted form values
    initialData,     \* SpecForm: TRUE when an existing interview is edited
    formUserId,      \* SpecForm: useAuth().userId ("null" when signed out)
    formLoading,     \* SpecForm: useState(false)
    formPc,          \* SpecForm: where onSubmit stands
    aiText,          \* SpecForm: what chatSession.sendMessage settled with
    aiQuestions,     \* SpecForm: what generateAiResponse returned
    interviews,      \* SpecForm: documents written to the interviews collection
    formToast        \* SpecForm: notice shown by the last step

sessionVars == <<results, interimResult, isRecording, lateDelivery, userAnswer,
                 isAiGenerating, aiResult, aiStale, open, loading, calls, saves,
                 userAnswers, toast, question, startedAt, aiScored>>

tabVars == <<tabs>>

\* the state of the component of Spec, the collection apart
ownVars == <<results, interimResult, isRecording, lateDelivery, userAnswer,
             isAiGenerating, aiResult, aiStale, open, loading, calls, saves,
             toast, question, startedAt, aiScored>>

evalVars == <<evalResp, evalOut>>

formVars == <<build, formData, initialData, formUserId, formLoading, formPc,
              aiText, aiQuestions, interviews, formToast>>

vars == <<sessionVars, evalVars, formVars, tabVars>>

(* ------------------------------ bounds --------------------------------- *)

MaxResults == 2     \* final fragments delivered to one mounted component
MaxCalls == 2       \* scoring calls in flight at once
MaxDocs == 3        \* documents in the userAnswers collection

MaxTextLen == 5     \* lexemes in a text of the scoring service (SpecEval)

MaxItems == 5       \* items of a JSON array the generation service answers with (SpecForm)

(* ------------------------------- text ---------------------------------- *)

Rep(c, n) == [i \in 1..n |-> c]

IsSpace(c) == c \in {" ", "\n", "\t"}

RECURSIVE TrimStart(_)
TrimStart(s) ==
    IF s = <<>> THEN <<>>
    ELSE IF IsSpace(Head(s)) THEN TrimStart(Tail(s)) ELSE s

RECURSIVE TrimEnd(_)
TrimEnd(s) ==
    IF s = <<>> THEN <<>>
    ELSE IF IsSpace(s[Len(s)]) THEN TrimEnd(SubSeq(s, 1, Len(s) - 1)) ELSE s

\* String.prototype.trim
Trim(s) == TrimEnd(TrimStart(s))

\* Array.prototype.join(sep) over a sequence of texts
RECURSIVE JoinWith(_, _)
JoinWith(ts, sep) ==
    IF ts = <<>> THEN <<>>
    ELSE IF Len(ts) = 1 THEN ts[1]
    ELSE ts[1] \o sep \o JoinWith(Tail(ts), sep)

\* ------------------- evaluation extraction -----------------------------
\* record-answer.tsx, generateResult: the text of the service is matched
\* against /Rating:\s*(\d+)/i and /Feedback:\s*([\s\S]*)/i.

Digits == {"0", "1", "2", "3", "4", "5", "6", "7", "8", "9"}

DigitVal(d) ==
    CASE d = "0" -> 0 [] d = "1" -> 1 [] d = "2" -> 2 [] d = "3" -> 3
      [] d = "4" -> 4 [] d = "5" -> 5 [] d = "6" -> 6 [] d = "7" -> 7
      [] d = "8" -> 8 [] d = "9" -> 9

\* the i flag: a label lexeme is compared in lower case
LowerLex(x) ==
    CASE x \in {"Rating:", "RATING:"} -> "rating:"
      [] x \in {"Feedback:", "FEEDBACK:"} -> "feedback:"
      [] OTHER -> x

\* \s* from position i: the first position at or after i that holds no white space
RECURSIVE SkipSpace(_, _)
SkipSpace(text, i) ==
    IF i > Len(text) THEN i
    ELSE IF IsSpace(text[i]) THEN SkipSpace(text, i + 1) ELSE i

\* (\d+) from position i: the first position at or after i that holds no digit
RECURSIVE DigitsEnd(_, _)
DigitsEnd(text, i) ==
    IF i > Len(text) THEN i
    ELSE IF text[i] \in Digits THEN DigitsEnd(text, i + 1) ELSE i

\* Number("...") of a run of digits
RECURSIVE NumberOf(_)
NumberOf(ds) ==
    IF ds = <<>> THEN 0
    ELSE 10 * NumberOf(SubSeq(ds, 1, Len(ds) - 1)) + DigitVal(ds[Len(ds)])

\* text.match(/Rating:\s*(\d+)/i): the captured digits, <<>> when there is no match
RECURSIVE RatingMatchFrom(_, _)
RatingMatchFrom(text, i) ==
    IF i > Len(text) THEN <<>>
    ELSE LET j == SkipSpace(text, i + 1)
         IN  IF LowerLex(text[i]) = "rating:" /\ DigitsEnd(text, j) > j
             THEN SubSeq(text, j, DigitsEnd(text, j) - 1)
             ELSE RatingMatchFrom(text, i + 1)

ratingMatch(text) == RatingMatchFrom(text, 1)

\* text.match(/Feedback:\s*([\s\S]*)/i): position of the label, 0 when there is no match
RECURSIVE FeedbackLabelFrom(_, _)
FeedbackLabelFrom(text, i) ==
    IF i > Len(text) THEN 0
    ELSE IF LowerLex(text[i]) = "feedback:" THEN i
    ELSE FeedbackLabelFrom(text, i + 1)

feedbackMatch(text) == FeedbackLabelFrom(text, 1)

\* feedbackMatch[1]: everything after the label and the white space that follows it
FeedbackCapture(text) ==
    SubSeq(text, SkipSpace(text, feedbackMatch(text) + 1), Len(text))

NoFeedbackGenerated == <<"No feedback generated.">>
UnableToGenerate == <<"Unable to generate feedback.">>

\* EvaluateText with the captured feedback left untrimmed
EvaluateTextUntrimmed(text) ==
    [ratings |-> IF ratingMatch(text) # <<>> THEN NumberOf(ratingMatch(text)) ELSE 0,
     feedback |-> IF feedbackMatch(text) # 0
                  THEN FeedbackCapture(text)
                  ELSE NoFeedbackGenerated]

\* the value generateResult returns when generateWithGemini resolves with text
EvaluateText(text) ==
    [ratings |-> IF ratingMatch(text) # <<>> THEN NumberOf(ratingMatch(text)) ELSE 0,
     feedback |-> IF feedbackMatch(text) # 0
                  THEN Trim(FeedbackCapture(text))
                  ELSE NoFeedbackGenerated]

\* CatchResult with the string of the missing-label default
CatchResultNoFeedback == [ratings |-> 0, feedback |-> NoFeedbackGenerated]

\* the value generateResult returns from its catch block
CatchResult == [ratings |-> 0, feedback |-> UnableToGenerate]

\* a response of generateWithGemini: a text, or a rejection
Resolved(text) == [ok |-> TRUE, text |-> text]
Rejected == [ok |-> FALSE, text |-> <<>>]

generateResult(resp) == IF resp.ok THEN EvaluateText(resp.text) ELSE CatchResult

(* --------------------------- RecordAnswer ------------------------------ *)

\* useAuth().userId of the signed-in user
userId == "u1"

\* the values the question prop takes: the questions of the interview, and the
\* one the component is mounted with
Questions ==
    { [question |-> "q1", answer |-> "a1"], [question |-> "q2", answer |-> "a2"] }

FirstQuestion == [question |-> "q1", answer |-> "a1"]

\* final transcripts the recogniser delivers (7 characters each; the second
\* starts with the blank the recogniser puts before a follow-up phrase)
FinalTranscripts == {Rep("a", 7), <<" ">> \o Rep("b", 6)}

\* interim (provisional) transcripts the recogniser delivers
InterimTranscripts == {<<"x", "x">>}

\* texts the scoring service answers with
ServiceTexts ==
    { <<"Rating:", " ", "3", "\n", "Feedback:", " ", "Needs more detail.">>,
      <<"Rating:", " ", "1", "5", "\n", "Feedback:", " ", "Good job">> }

ScoringResponses == {Resolved(t) : t \in ServiceTexts} \cup {Rejected}

Null == <<>>
Some(x) == <<x>>

\* Combined with the fragments joined by join("") instead of join(" ")
CombinedUnspaced(rs) ==
    LET kept == SelectSeq(rs, LAMBDA r : r.kind # "string")
    IN  JoinWith([i \in 1..Len(kept) |-> kept[i].transcript], <<>>)

\* the useEffect on [results]: filter(typeof r !== "string").map(transcript).join(" ")
Combined(rs) ==
    LET kept == SelectSeq(rs, LAMBDA r : r.kind # "string")
    IN  JoinWith([i \in 1..Len(kept) |-> kept[i].transcript], <<" ">>)

\* the minimum length recordUserAnswer asks of userAnswer.trim()
MinAnswerLength == 15

\* TooShort measuring userAnswer.length instead of userAnswer.trim().length
TooShortUntrimmed(answer) == Len(answer) < MinAnswerLength

TooShort(answer) == Len(Trim(answer)) < MinAnswerLength

\* QuerySnap with the question filter comparing against question.answer
QuerySnapWrongField(docs, uid, qst) ==
    SelectSeq(docs, LAMBDA d : d.userId = uid /\ d.question = question.answer)

\* getDocs(query(userAnswers, where userId ==, where question ==))
QuerySnap(docs, uid, qst) ==
    SelectSeq(docs, LAMBDA d : d.userId = uid /\ d.question = qst)

\* AnswerDoc with the expected answer stored in the question field
AnswerDocKeyedByAnswer(att) ==
    [userId |-> userId, question |-> att.question.answer,
     correct_ans |-> att.question.answer, user_ans |-> att.user_ans,
     feedback |-> att.aiResult.feedback, rating |-> att.aiResult.ratings]

\* the document saveUserAnswer hands to addDoc
AnswerDoc(att) ==
    [userId |-> userId, question |-> att.question.question,
     correct_ans |-> att.question.answer, user_ans |-> att.user_ans,
     feedback |-> att.aiResult.feedback, rating |-> att.aiResult.ratings]

\* the collection when the component mounts: an answer of another user
InitialDocs ==
    << [userId |-> "u2", question |-> FirstQuestion.question,
        correct_ans |-> FirstQuestion.answer, user_ans |-> Rep("a", 7),
        feedback |-> <<"Good job">>, rating |-> 5] >>

\* SaveModal (./save-model): the confirm button acts while the dialog is open
\* and no save is running
SaveModalConfirmEnabled == open /\ ~loading

SessionInit ==
    /\ results = <<>>
    /\ interimResult = <<>>
    /\ isRecording = FALSE
    /\ lateDelivery = FALSE
    /\ userAnswer = <<>>
    /\ isAiGenerating = FALSE
    /\ aiResult = Null
    /\ aiStale = FALSE
    /\ open = FALSE
    /\ loading = FALSE
    /\ calls = EmptyBag
    /\ saves = <<>>
    /\ userAnswers = InitialDocs
    /\ toast = "none"
    /\ question = FirstQuestion
    /\ startedAt = 0
    /\ aiScored = Null

\* the browser tabs in which the signed-in user has the question open
Tabs == {"tab1", "tab2"}

\* a component as mounted: the state saveUserAnswer reads and writes
TabMounted ==
    [userAnswer |-> <<>>, aiResult |-> Null, open |-> FALSE, loading |-> FALSE,
     save |-> Null, toast |-> "none"]

TabsIdle == tabs = [t \in Tabs |-> TabMounted]

\* SpecEval and SpecForm at rest
EvalIdle == evalResp = [ok |-> FALSE, text |-> <<>>] /\ evalOut = <<>>

FormIdle ==
    /\ build = "part_001"
    /\ formData = [position |-> "Dev", techStack |-> "React", experience |-> 2]
    /\ initialData = FALSE
    /\ formUserId = "u1"
    /\ formLoading = FALSE
    /\ formPc = "idle"
    /\ aiText = [ok |-> FALSE, text |-> <<>>]
    /\ aiQuestions = <<>>
    /\ interviews = <<>>
    /\ formToast = "none"

Init == SessionInit /\ EvalIdle /\ FormIdle /\ TabsIdle

\* the recogniser delivers a final fragment; the effect on [results] then runs
FinalFragment ==
    \E t \in FinalTranscripts :
        /\ isRecording \/ lateDelivery
        /\ Len(results) < MaxResults
        /\ results' = Append(results, [kind |-> "object", transcript |-> t])
        /\ interimResult' = <<>>
        /\ lateDelivery' = FALSE
        /\ userAnswer' = Combined(results')
        /\ toast' = "none"
        /\ UNCHANGED <<evalVars, formVars, tabVars, question,
                       isRecording, isAiGenerating, aiResult, aiStale, open,
                       loading, calls, saves, userAnswers, startedAt, aiScored>>

\* the recogniser delivers an interim fragment: only interimResult changes
InterimFragment ==
    \E t \in InterimTranscripts :
        /\ isRecording
        /\ interimResult # t
        /\ interimResult' = t
        /\ toast' = "none"
        /\ UNCHANGED <<evalVars, formVars, tabVars, question,
                       results, isRecording, lateDelivery, userAnswer,
                       isAiGenerating, aiResult, aiStale, open, loading, calls,
                       saves, userAnswers, startedAt, aiScored>>

\* recordUserAnswer, else branch: startSpeechToText()
StartRecording ==
    /\ ~isRecording
    /\ isRecording' = TRUE
    /\ lateDelivery' = FALSE
    /\ startedAt' = Len(results)
    /\ toast' = "none"
    /\ UNCHANGED <<evalVars, formVars, tabVars, question,
                   results, interimResult, userAnswer, isAiGenerating, aiResult,
                   aiStale, open, loading, calls, saves, userAnswers, aiScored>>

\* recordUserAnswer, if branch: stopSpeechToText(), then the length check and,
\* when it passes, generateResult up to its await
StopRecording ==
    /\ isRecording
    /\ isRecording' = FALSE
    /\ lateDelivery' = TRUE
    /\ IF TooShort(userAnswer)
       THEN /\ toast' = "Answer too short"
            /\ UNCHANGED <<isAiGenerating, calls>>
       ELSE /\ BagCardinality(calls) < MaxCalls
            /\ isAiGenerating' = TRUE
            /\ calls' = calls (+) SetToBag({[qst |-> question.question,
                                              userAns |-> userAnswer,
                                              stale |-> FALSE]})
            /\ toast' = "none"
    /\ UNCHANGED <<evalVars, formVars, tabVars, question,
                   results, interimResult, userAnswer, aiResult, aiStale, open,
                   loading, saves, userAnswers, startedAt, aiScored>>

\* generateWithGemini settles: the rest of generateResult (try or catch, then
\* finally) and the setAiResult(result) of recordUserAnswer
ScoringReturns ==
    \E call \in BagToSet(calls), resp \in ScoringResponses :
        /\ calls' = calls (-) SetToBag({call})
        /\ isAiGenerating' = FALSE
        /\ aiResult' = Some(generateResult(resp))
        /\ aiStale' = call.stale
        /\ aiScored' = Some([qst |-> call.qst, userAns |-> call.userAns])
        /\ toast' = IF resp.ok THEN "none" ELSE "AI evaluation failed"
        /\ UNCHANGED <<evalVars, formVars, tabVars, question,
                       results, interimResult, isRecording, lateDelivery,
                       userAnswer, open, loading, saves, userAnswers, startedAt>>

\* the calls in flight once the recording they score has been discarded
Outdated(cs) ==
    LET old == {[c EXCEPT !.stale = TRUE] : c \in BagToSet(cs)}
    IN  [c \in old |->
            CopiesIn(c, cs) + CopiesIn([c EXCEPT !.stale = FALSE], cs)]

\* recordNewAnswer
RecordAgain ==
    /\ userAnswer' = <<>>
    /\ aiResult' = Null
    /\ aiStale' = FALSE
    /\ aiScored' = Null
    /\ calls' = Outdated(calls)
    /\ isRecording' = TRUE
    /\ lateDelivery' = FALSE
    /\ startedAt' = Len(results)
    /\ toast' = "none"
    /\ UNCHANGED <<evalVars, formVars, tabVars, question,
                   results, interimResult, isAiGenerating, open, loading, saves,
                   userAnswers>>

\* the Save Result button (disabled while there is no aiResult): setOpen(true)
OpenSaveDialog ==
    /\ aiResult # Null
    /\ ~open
    /\ open' = TRUE
    /\ toast' = "none"
    /\ UNCHANGED <<evalVars, formVars, tabVars, question,
                   results, interimResult, isRecording, lateDelivery, userAnswer,
                   isAiGenerating, aiResult, aiStale, loading, calls, saves,
                   userAnswers, startedAt, aiScored>>

\* SaveModal onClose: setOpen(false)
CloseSaveDialog ==
    /\ open
    /\ open' = FALSE
    /\ toast' = "none"
    /\ UNCHANGED <<evalVars, formVars, tabVars, question,
                   results, interimResult, isRecording, lateDelivery, userAnswer,
                   isAiGenerating, aiResult, aiStale, loading, calls, saves,
                   userAnswers, startedAt, aiScored>>

\* SaveFinally without setLoading(false)
SaveFinallyKeepsLoading ==
    /\ loading' = loading
    /\ open' = FALSE
    /\ saves' = Tail(saves)

\* the finally block of saveUserAnswer
SaveFinally ==
    /\ loading' = FALSE
    /\ open' = FALSE
    /\ saves' = Tail(saves)

\* SaveModal onConfirm: saveUserAnswer up to its first await (getDocs)
ConfirmSave ==
    /\ SaveModalConfirmEnabled
    /\ toast' = "none"
    /\ IF aiResult = Null
       THEN UNCHANGED <<loading, saves>>
       ELSE /\ loading' = TRUE
            /\ saves' = Append(saves, [phase |-> "getDocs", snapEmpty |-> FALSE,
                                       question |-> question,
                                       user_ans |-> userAnswer,
                                       aiResult |-> aiResult[1],
                                       scored |-> aiScored])
    /\ UNCHANGED <<evalVars, formVars, tabVars, question,
                   results, interimResult, isRecording, lateDelivery, userAnswer,
                   isAiGenerating, aiResult, aiStale, open, calls, userAnswers,
                   startedAt, aiScored>>

\* ProceedsToInsert without the snap.empty test
ProceedsToInsertAlways(snap) == TRUE

\* whether saveUserAnswer goes on to addDoc after the existence query
ProceedsToInsert(snap) == snap = <<>>

\* getDocs settles: the snap.empty test, then addDoc is issued, or the handler ends
GetDocsReturns ==
    \E ok \in BOOLEAN :
        /\ saves # <<>>
        /\ saves[1].phase = "getDocs"
        /\ LET snap == QuerySnap(userAnswers, userId, saves[1].question.question) IN
           IF ~ok
           THEN /\ toast' = "Failed to save answer"
                /\ SaveFinally
           ELSE IF ProceedsToInsert(snap)
           THEN /\ saves' = <<[saves[1] EXCEPT !.phase = "addDoc",
                                               !.snapEmpty = (snap = <<>>)]>>
                                \o Tail(saves)
                /\ toast' = "none"
                /\ UNCHANGED <<loading, open>>
           ELSE /\ toast' = "Already answered"
                /\ SaveFinally
        /\ UNCHANGED <<evalVars, formVars, tabVars, question,
                       results, interimResult, isRecording, lateDelivery,
                       userAnswer, isAiGenerating, aiResult, aiStale, calls,
                       userAnswers, startedAt, aiScored>>

\* addDoc settles: the success path (toast, setUserAnswer(""), stopSpeechToText())
\* or the catch block, then finally
AddDocReturns ==
    \E ok \in BOOLEAN :
        /\ saves # <<>>
        /\ saves[1].phase = "addDoc"
        /\ IF ok
           THEN /\ Len(userAnswers) < MaxDocs
                /\ userAnswers' = Append(userAnswers, AnswerDoc(saves[1]))
                /\ toast' = "Answer saved successfully"
                /\ userAnswer' = <<>>
                /\ isRecording' = FALSE
                /\ lateDelivery' = (isRecording \/ lateDelivery)
           ELSE /\ toast' = "Failed to save answer"
                /\ UNCHANGED <<userAnswers, userAnswer, isRecording, lateDelivery>>
        /\ SaveFinally
        /\ UNCHANGED <<evalVars, formVars, tabVars, question,
                       results, interimResult, isAiGenerating, aiResult, aiStale,
                       calls, startedAt, aiScored>>

Next ==
    \/ FinalFragment
    \/ InterimFragment
    \/ StartRecording
    \/ StopRecording
    \/ ScoringReturns
    \/ RecordAgain
    \/ OpenSaveDialog
    \/ CloseSaveDialog
    \/ ConfirmSave
    \/ GetDocsReturns
    \/ AddDocReturns

Spec == Init /\ [][Next]_vars

\* the steps of the recogniser, of the record button, of Record Again and of
\* the scoring call; the steps of saveUserAnswer write neither aiResult nor
\* isAiGenerating nor the calls in flight
NextLive ==
    \/ FinalFragment
    \/ InterimFragment
    \/ StartRecording
    \/ StopRecording
    \/ ScoringReturns
    \/ RecordAgain

\* the promise of generateWithGemini settles (it resolves or it rejects), so the
\* continuation of a scoring call in flight eventually runs
SpecLive == Init /\ [][NextLive]_vars /\ WF_vars(ScoringReturns)

\* the parent hands the mounted component another question: the component is
\* rendered again with the new prop, and no state and no effect depends on it
QuestionChanges ==
    \E q \in Questions :
        /\ q # question
        /\ question' = q
        /\ toast' = "none"
        /\ UNCHANGED <<evalVars, formVars, tabVars,
                       results, interimResult, isRecording, lateDelivery,
                       userAnswer, isAiGenerating, aiResult, aiStale, open,
                       loading, calls, saves, userAnswers, startedAt, aiScored>>

NextNav ==
    \/ Next
    \/ QuestionChanges

\* the session when the question prop can change while the component is mounted
SpecNav == Init /\ [][NextNav]_vars

\* a whole sentence (15 characters) the recogniser delivers as one final fragment
SentenceTranscript == Rep("c", 15)

\* the recogniser delivers a sentence as one final fragment; the effect on
\* [results] then runs
SentenceFragment ==
    /\ isRecording \/ lateDelivery
    /\ Len(results) < MaxResults
    /\ results' = Append(results, [kind |-> "object", transcript |-> SentenceTranscript])
    /\ interimResult' = <<>>
    /\ lateDelivery' = FALSE
    /\ userAnswer' = Combined(results')
    /\ toast' = "none"
    /\ UNCHANGED <<evalVars, formVars, tabVars, question,
                   isRecording, isAiGenerating, aiResult, aiStale, open,
                   loading, calls, saves, userAnswers, startedAt, aiScored>>

NextLong ==
    \/ Next
    \/ SentenceFragment

\* the session when one final fragment can hold an answer of full length
SpecLong == Init /\ [][NextLong]_vars

(* ------------------- RecordAnswer in two tabs -------------------------- *)
\* Two components of the same user are mounted on the same question, one per
\* browser tab, and share the userAnswers collection. Recording and scoring
\* run in each tab as in Spec; here they are one step, and the steps of
\* saveUserAnswer of the two tabs interleave.

\* the answers of at least 15 characters two final fragments make
TabAnswers ==
    {a \in {JoinWith(<<t1, t2>>, <<" ">>) : t1 \in FinalTranscripts, t2 \in FinalTranscripts} :
        ~TooShort(a)}

\* recordUserAnswer run to its end in tab t: an answer has been recorded, the
\* scoring call has settled and setAiResult(result) has run
TabRecordUserAnswer(t) ==
    \E a \in TabAnswers, resp \in ScoringResponses :
        /\ tabs[t].aiResult = Null
        /\ tabs[t].save = Null
        /\ tabs' = [tabs EXCEPT ![t].userAnswer = a,
                                ![t].aiResult = Some(generateResult(resp)),
                                ![t].toast = IF resp.ok THEN "none"
                                             ELSE "AI evaluation failed"]
        /\ UNCHANGED <<ownVars, userAnswers, evalVars, formVars>>

\* the Save Result button of tab t
TabOpenSaveDialog(t) ==
    /\ tabs[t].aiResult # Null
    /\ ~tabs[t].open
    /\ tabs' = [tabs EXCEPT ![t].open = TRUE, ![t].toast = "none"]
    /\ UNCHANGED <<ownVars, userAnswers, evalVars, formVars>>

\* SaveModal of tab t: the confirm button acts while the dialog is open and no
\* save is running
TabConfirmEnabled(t) == tabs[t].open /\ ~tabs[t].loading

\* saveUserAnswer of tab t up to its first await (getDocs)
TabConfirmSave(t) ==
    /\ TabConfirmEnabled(t)
    /\ tabs[t].aiResult # Null
    /\ tabs' = [tabs EXCEPT ![t].loading = TRUE,
                            ![t].toast = "none",
                            ![t].save = Some([phase |-> "getDocs",
                                              snapEmpty |-> FALSE,
                                              question |-> FirstQuestion,
                                              user_ans |-> tabs[t].userAnswer,
                                              aiResult |-> tabs[t].aiResult[1]])]
    /\ UNCHANGED <<ownVars, userAnswers, evalVars, formVars>>

\* the state of a tab after the finally block of saveUserAnswer
TabSaveFinally(tab, notice) ==
    [tab EXCEPT !.loading = FALSE, !.open = FALSE, !.save = Null, !.toast = notice]

\* getDocs of tab t settles
TabGetDocsReturns(t) ==
    \E ok \in BOOLEAN :
        /\ tabs[t].save # Null
        /\ tabs[t].save[1].phase = "getDocs"
        /\ LET att == tabs[t].save[1]
               snap == QuerySnap(userAnswers, userId, att.question.question)
           IN  tabs' = [tabs EXCEPT ![t] =
                   IF ~ok THEN TabSaveFinally(@, "Failed to save answer")
                   ELSE IF ProceedsToInsert(snap)
                   THEN [@ EXCEPT !.save = Some([att EXCEPT !.phase = "addDoc",
                                                            !.snapEmpty = (snap = <<>>)]),
                                  !.toast = "none"]
                   ELSE TabSaveFinally(@, "Already answered")]
        /\ UNCHANGED <<ownVars, userAnswers, evalVars, formVars>>

\* addDoc of tab t settles
TabAddDocReturns(t) ==
    \E ok \in BOOLEAN :
        /\ tabs[t].save # Null
        /\ tabs[t].save[1].phase = "addDoc"
        /\ IF ok
           THEN /\ Len(userAnswers) < MaxDocs
                /\ userAnswers' = Append(userAnswers, AnswerDoc(tabs[t].save[1]))
                /\ tabs' = [tabs EXCEPT ![t] =
                        TabSaveFinally([@ EXCEPT !.userAnswer = <<>>],
                                       "Answer saved successfully")]
           ELSE /\ tabs' = [tabs EXCEPT ![t] =
                        TabSaveFinally(@, "Failed to save answer")]
                /\ UNCHANGED userAnswers
        /\ UNCHANGED <<ownVars, evalVars, formVars>>

NextTabs ==
    \E t \in Tabs :
        \/ TabRecordUserAnswer(t)
        \/ TabOpenSaveDialog(t)
        \/ TabConfirmSave(t)
        \/ TabGetDocsReturns(t)
        \/ TabAddDocReturns(t)

SpecTabs == Init /\ [][NextTabs]_vars

(* ------------------ generateResult over short texts -------------------- *)

\* lexemes a text of the scoring service is made of
EvalLexemes == {"Rating:", "rating:", "Feedback:", " ", "1", "5", "Good job"}

\* the texts of at most MaxTextLen lexemes, and the texts of ServiceTexts
EvalTexts ==
    UNION {[1..n -> EvalLexemes] : n \in 0..MaxTextLen} \cup ServiceTexts

EvalInit ==
    /\ evalResp \in {Resolved(t) : t \in EvalTexts} \cup {Rejected}
    /\ evalOut = Null

\* generateResult runs on what the service settled with (its toast.error in the
\* catch block included), and recordUserAnswer stores what it returns
Evaluate ==
    /\ evalOut = Null
    /\ evalOut' = Some(generateResult(evalResp))
    /\ aiResult' = Some(generateResult(evalResp))
    /\ isAiGenerating' = FALSE
    /\ toast' = IF evalResp.ok THEN "none" ELSE "AI evaluation failed"
    /\ UNCHANGED <<evalResp, formVars, tabVars,
                   results, interimResult, isRecording, lateDelivery, userAnswer,
                   aiStale, open, loading, calls, saves, userAnswers, question,
                   startedAt, aiScored>>

InitEval == SessionInit /\ EvalInit /\ FormIdle /\ TabsIdle

NextEval == Evaluate

SpecEval == InitEval /\ [][NextEval]_vars

(* -------------------------- FormMockInterview --------------------------- *)
\* A text of the generation service is a sequence of lexemes: "[", "]", ",",
\* white space, a Markdown fence, a word of commentary, a number literal, and
\* JSON object literals: "{A}" and "{B}" have a string question and a string
\* answer, "{Q}" has a question and no answer.

Undefined == <<"undefined">>

Pair(q, a) == [kind |-> "object", question |-> q, answer |-> a]

ObjectLexemes == {"{A}", "{B}", "{Q}"}

\* the value JSON.parse gives an object or number literal
LiteralValue(x) ==
    CASE x = "{A}" -> Pair(<<"qA">>, <<"aA">>)
      [] x = "{B}" -> Pair(<<"qB">>, <<"aB">>)
      [] x = "{Q}" -> Pair(<<"qQ">>, Undefined)
      [] x = "1" -> [kind |-> "number", question |-> Undefined, answer |-> Undefined]

IsLiteral(x) == x \in ObjectLexemes \cup {"1"}

Failed == [ok |-> FALSE, val |-> <<>>, next |-> 0]

\* JSON.parse, by recursive descent: ParseValue reads one value at position i,
\* ParseElements the elements of an array whose "[" has been read
RECURSIVE ParseValue(_, _), ParseElements(_, _, _)
ParseValue(t, i) ==
    LET j == SkipSpace(t, i) IN
    IF j > Len(t) THEN Failed
    ELSE IF IsLiteral(t[j]) THEN [ok |-> TRUE, val |-> LiteralValue(t[j]), next |-> j + 1]
    ELSE IF t[j] = "[" THEN
        LET r == ParseElements(t, j + 1, <<>>) IN
        IF r.ok
        THEN [ok |-> TRUE,
              val |-> [kind |-> "array", question |-> Undefined, answer |-> Undefined],
              next |-> r.next]
        ELSE Failed
    ELSE Failed

ParseElements(t, i, acc) ==
    LET j == SkipSpace(t, i) IN
    IF j > Len(t) THEN Failed
    ELSE IF t[j] = "]" /\ acc = <<>> THEN [ok |-> TRUE, val |-> acc, next |-> j + 1]
    ELSE LET v == ParseValue(t, j) IN
         IF ~v.ok THEN Failed
         ELSE LET k == SkipSpace(t, v.next) IN
              IF k > Len(t) THEN Failed
              ELSE IF t[k] = "]"
                   THEN [ok |-> TRUE, val |-> Append(acc, v.val), next |-> k + 1]
              ELSE IF t[k] = ","
                   THEN ParseElements(t, k + 1, Append(acc, v.val))
              ELSE Failed

\* JSON.parse of a text that starts with "[": the array, or a SyntaxError
JSONParse(t) ==
    IF t = <<>> \/ SkipSpace(t, 1) > Len(t) \/ t[SkipSpace(t, 1)] # "["
    THEN Failed
    ELSE LET r == ParseElements(t, SkipSpace(t, 1) + 1, <<>>) IN
         IF r.ok /\ SkipSpace(t, r.next) > Len(t) THEN r ELSE Failed

\* text.match(/\[[\s\S]*\]/): from the first "[" to the last "]" after it,
\* <<>> when there is no match
Opens(t) == {i \in 1..Len(t) : t[i] = "["}
Closes(t) == {i \in 1..Len(t) : t[i] = "]"}

BracketMatch(t) ==
    IF Opens(t) = {} THEN <<>>
    ELSE LET i == CHOOSE x \in Opens(t) : \A y \in Opens(t) : x <= y
             after == {j \in Closes(t) : j > i}
         IN  IF after = {} THEN <<>>
             ELSE SubSeq(t, i, CHOOSE x \in after : \A y \in after : x >= y)

\* part_001, cleanAiResponse
cleanAiResponse(text) ==
    LET match == BracketMatch(text) IN
    IF match = <<>> THEN <<>>
    ELSE IF JSONParse(match).ok THEN JSONParse(match).val ELSE <<>>

\* String(n) of the experience field
NumStr(n) ==
    CASE n = 0 -> "0" [] n = 1 -> "1" [] n = 2 -> "2" [] n = 3 -> "3" [] OTHER -> "n"

\* part_001, generateAiResponse: the questions of the catch block
FallbackQuestions(data) ==
    << Pair(<<"Explain ", data.techStack, ".">>,
            <<data.techStack, " is widely used in modern application development to build scalable and efficient systems.">>),
       Pair(<<"What are your responsibilities as a ", data.position, "?">>,
            <<"As a ", data.position, ", I am responsible for designing, developing, testing, and maintaining applications.">>),
       Pair(<<"How do you solve real-world problems in projects?">>,
            <<"I analyze requirements, break the problem into smaller tasks, and implement solutions step by step.">>),
       Pair(<<"What best practices do you follow while working with ", data.techStack, "?">>,
            <<"I follow clean code principles, proper error handling, performance optimization, and documentation.">>),
       Pair(<<"How does your ", NumStr(data.experience), " years of experience help you?">>,
            <<"My experience helps me anticipate edge cases, write efficient code, and make better technical decisions.">>) >>

\* form-mock-interview.tsx, first copy: the questions of the catch block
FallbackQuestionsA(data) ==
    << Pair(<<"Explain ", data.techStack>>,
            <<data.techStack, " is widely used in development.">>) >>

\* form-mock-interview.tsx, second copy: the questions of the catch block
FallbackQuestionsB(data) ==
    << Pair(<<"What is ", data.techStack, "?">>,
            <<data.techStack, " is commonly used in modern applications.">>) >>

\* part_001, generateAiResponse
generateAiResponse(resp, data) ==
    IF ~resp.ok THEN FallbackQuestions(data)
    ELSE LET parsed == cleanAiResponse(resp.text) IN
         IF Len(parsed) = 0 THEN FallbackQuestions(data) ELSE parsed

\* form-mock-interview.tsx, generateAiResponse of either copy, fallback being
\* the questions of its catch block
generateAiResponseInline(resp, fallback) ==
    IF ~resp.ok THEN fallback
    ELSE LET match == BracketMatch(resp.text) IN
         IF match = <<>> THEN fallback
         ELSE IF JSONParse(match).ok THEN JSONParse(match).val ELSE fallback

\* the copies of the component the repository holds
Builds == {"part_001", "form-mock-interview.1", "form-mock-interview.2"}

\* generateAiResponse of the mounted copy
GenerateFor(b, resp, data) ==
    CASE b = "part_001" -> generateAiResponse(resp, data)
      [] b = "form-mock-interview.1" ->
            generateAiResponseInline(resp, FallbackQuestionsA(data))
      [] b = "form-mock-interview.2" ->
            generateAiResponseInline(resp, FallbackQuestionsB(data))

\* JSON text of an array of literals; spaced puts a blank after "[" and ","
RECURSIVE Elements(_, _)
Elements(items, spaced) ==
    IF items = <<>> THEN <<>>
    ELSE IF Len(items) = 1 THEN <<items[1]>>
    ELSE <<items[1], ",">> \o (IF spaced THEN <<" ">> ELSE <<>>)
            \o Elements(Tail(items), spaced)

ArrayText(items, spaced) ==
    <<"[">> \o (IF spaced THEN <<" ">> ELSE <<>>) \o Elements(items, spaced) \o <<"]">>

\* what the service may put around the array: nothing, commentary, a fence,
\* white space (then also inside the array), a bracketed note before it, a
\* bracketed note after it
Wrappers ==
    { [before |-> <<>>, after |-> <<>>, spaced |-> FALSE],
      [before |-> <<"Here", " ", "you", " ", "go", "\n">>,
       after |-> <<"\n", "Good", " ", "luck">>, spaced |-> FALSE],
      [before |-> <<"~~~", "\n">>, after |-> <<"\n", "~~~">>, spaced |-> FALSE],
      [before |-> <<" ", "\n">>, after |-> <<"\n">>, spaced |-> TRUE],
      [before |-> <<"[", "1", "]", " ">>, after |-> <<>>, spaced |-> FALSE],
      [before |-> <<>>, after |-> <<" ", "[", "1", "]">>, spaced |-> FALSE] }

ItemLists == UNION {[1..n -> ObjectLexemes] : n \in 0..MaxItems}

\* texts that hold no well-formed array
BrokenTexts ==
    { <<>>,
      <<"Sorry">>,
      <<"[", "{A}", ",", "{B}">>,
      <<"{A}", ",", "{B}", "]">>,
      <<"[", "{A}", ",", "]">>,
      <<"[", "{A}", "{B}", "]">>,
      <<"]", "{A}", "[">>,
      <<"[", "[", "{A}", "]", "]">> }

\* well-formed arrays that are no question set: one item more than asked
\* for, and an item that is no object
OddArrayTexts ==
    { ArrayText([i \in 1..(MaxItems + 1) |-> IF i % 2 = 1 THEN "{A}" ELSE "{B}"], FALSE),
      <<"[", "1", ",", "{A}", "]">> }

GenerationTexts ==
    {w.before \o ArrayText(items, w.spaced) \o w.after :
        w \in Wrappers, items \in ItemLists}
    \cup BrokenTexts
    \cup OddArrayTexts

GenerationResponses == {Resolved(t) : t \in GenerationTexts} \cup {Rejected}

FormDatas ==
    { [position |-> "Dev", techStack |-> "React", experience |-> 2],
      [position |-> "QA", techStack |-> "Go", experience |-> 0] }

FormInit ==
    /\ build \in Builds
    /\ formData \in FormDatas
    /\ initialData \in BOOLEAN
    /\ formUserId \in {"u1", "null"}
    /\ formLoading = FALSE
    /\ formPc = "idle"
    /\ aiText = Rejected
    /\ aiQuestions = <<>>
    /\ interviews = <<>>
    /\ formToast = "none"

\* the notices of the mounted copy: error.message || "Something went wrong" in
\* part_001, toast.error("Something went wrong") in form-mock-interview.tsx
WriteErrorToast(b) == IF b = "part_001" THEN "Error" ELSE "Something went wrong"

SuccessToast(b, editing) ==
    IF b = "form-mock-interview.1"
    THEN (IF editing THEN "Updated successfully" ELSE "Created successfully")
    ELSE (IF editing THEN "Updated!" ELSE "Created!")

\* onSubmit up to its first await: setLoading(true), the userId test of
\* part_001, then generateAiResponse up to chatSession.sendMessage
Submit ==
    /\ formPc \in {"idle", "failed"}
    /\ ~formLoading
    /\ aiText' = Rejected
    /\ aiQuestions' = <<>>
    /\ IF build = "part_001" /\ formUserId = "null"
       THEN /\ formToast' = "User not authenticated"
            /\ formLoading' = FALSE
            /\ formPc' = "failed"
       ELSE /\ formToast' = "none"
            /\ formLoading' = TRUE
            /\ formPc' = "sendMessage"
    /\ UNCHANGED <<build, formData, initialData, formUserId, interviews,
                   sessionVars, evalVars, tabVars>>

\* chatSession.sendMessage settles: the rest of generateAiResponse, then
\* updateDoc or addDoc is issued
SendMessageReturns ==
    \E resp \in GenerationResponses :
        /\ formPc = "sendMessage"
        /\ aiText' = resp
        /\ aiQuestions' = GenerateFor(build, resp, formData)
        /\ formPc' = "write"
        /\ formToast' = "none"
        /\ UNCHANGED <<build, formData, initialData, formUserId, formLoading,
                       interviews, sessionVars, evalVars, tabVars>>

\* updateDoc or addDoc settles: toast and navigate, or the catch block; finally
WriteReturns ==
    \E ok \in BOOLEAN :
        /\ formPc = "write"
        /\ IF ok
           THEN /\ interviews' = Append(interviews,
                        [via |-> IF initialData THEN "updateDoc" ELSE "addDoc",
                         position |-> formData.position,
                         questions |-> aiQuestions])
                /\ formToast' = SuccessToast(build, initialData)
                /\ formPc' = "navigated"
           ELSE /\ formToast' = WriteErrorToast(build)
                /\ formPc' = "failed"
                /\ UNCHANGED interviews
        /\ formLoading' = FALSE
        /\ UNCHANGED <<build, formData, initialData, formUserId, aiText,
                       aiQuestions, sessionVars, evalVars, tabVars>>

InitForm == SessionInit /\ EvalIdle /\ FormInit /\ TabsIdle

NextForm ==
    \/ Submit
    \/ SendMessageReturns
    \/ WriteReturns

SpecForm == InitForm /\ [][NextForm]_vars

(* ------------------- properties of RecordAnswer ------------------------ *)

\* the answers the collection holds for this user and this question
ExistingAnswers ==
    {i \in DOMAIN userAnswers :
        userAnswers[i].userId = userId /\ userAnswers[i].question = question.question}

\* number of characters of s between its first and its last non-blank character
NonBlank(s) == {i \in 1..Len(s) : ~IsSpace(s[i])}

CoreLength(s) ==
    IF NonBlank(s) = {} THEN 0
    ELSE LET first == CHOOSE i \in NonBlank(s) : \A j \in NonBlank(s) : i <= j
             last == CHOOSE i \in NonBlank(s) : \A j \in NonBlank(s) : i >= j
         IN  last - first + 1

\* C1: when the existence query of a save attempt returns a document, that
\* attempt inserts nothing: the collection is unchanged, 'Already answered' is
\* shown and the attempt ends with loading false and the dialog closed; and
\* every insert is made by an attempt whose existence query returned empty.
C1_ExistingAnswerNotRewritten ==
    [][ /\ ( /\ saves # <<>>
             /\ saves[1].phase = "getDocs"
             /\ saves' # saves
             /\ toast' # "Failed to save answer"
             /\ ExistingAnswers # {} )
           => ( /\ userAnswers' = userAnswers
                /\ toast' = "Already answered"
                /\ ~loading'
                /\ ~open'
                /\ saves' = Tail(saves) )
        /\ (userAnswers' # userAnswers)
           => ( /\ saves # <<>>
                /\ saves[1].phase = "addDoc"
                /\ saves[1].snapEmpty
                /\ ExistingAnswers = {}
                /\ Len(userAnswers') = Len(userAnswers) + 1 )
      ]_vars

\* C1 witness: a save attempt has just ended on 'Already answered'
C1_Witness ==
    /\ toast = "Already answered"
    /\ ExistingAnswers # {}
    /\ saves = <<>>
    /\ ~loading
    /\ ~open

\* C2: the collection never holds more than one answer of this user to this
\* question, whatever the session does.
C2_AtMostOneAnswer == Cardinality(ExistingAnswers) <= 1

\* C2 witness: the answer is saved and a further confirmed save is under way
C2_Witness ==
    /\ Cardinality(ExistingAnswers) = 1
    /\ saves # <<>>
    /\ saves[1].phase = "getDocs"

\* C3: stopping capture through recordUserAnswer with an answer of fewer than
\* 15 characters starts no scoring call, leaves isAiGenerating and aiResult as
\* they were, shows 'Answer too short' and leaves the session not recording.
C3_ShortAnswerNotScored ==
    [][ ( /\ isRecording
          /\ ~isRecording'
          /\ saves' = saves
          /\ CoreLength(userAnswer) < 15 )
        => ( /\ calls' = calls
             /\ isAiGenerating' = isAiGenerating
             /\ aiResult' = aiResult
             /\ toast' = "Answer too short" )
      ]_vars

\* C3 witness: a 14-character answer has just been turned down
C3_Witness ==
    /\ toast = "Answer too short"
    /\ CoreLength(userAnswer) = 14
    /\ ~isRecording
    /\ ~isAiGenerating
    /\ aiResult = Null
    /\ calls = EmptyBag

\* C4: aiResult never holds the result of a scoring call that was started
\* before the last 'record again'.
C4_StaleResultDiscarded == aiResult # Null => ~aiStale

\* C5: at most one scoring call and at most one save attempt is in flight.
C5_OneRequestInFlight == BagCardinality(calls) <= 1 /\ Len(saves) <= 1

\* C7: the rating of the stored Evaluation and of every saved answer lies in 0..10.
C7_RatingInRange ==
    /\ aiResult # Null => aiResult[1].ratings \in 0..10
    /\ \A i \in DOMAIN userAnswers : userAnswers[i].rating \in 0..10

\* t is the transcripts of rs in order, one blank between neighbours
Offset(rs, k) ==
    LET RECURSIVE Sum(_)
        Sum(j) == IF j = 0 THEN 0 ELSE Sum(j - 1) + Len(rs[j].transcript) + 1
    IN  Sum(k - 1)

IsSpaceJoin(t, rs) ==
    IF rs = <<>> THEN t = <<>>
    ELSE /\ Len(t) = Offset(rs, Len(rs) + 1) - 1
         /\ \A k \in 1..Len(rs) :
                SubSeq(t, Offset(rs, k) + 1, Offset(rs, k) + Len(rs[k].transcript))
                    = rs[k].transcript
         /\ \A k \in 2..Len(rs) : t[Offset(rs, k)] = " "

\* t holds no character of an interim transcript
InterimChars == UNION {{t[i] : i \in 1..Len(t)} : t \in InterimTranscripts}

NoInterimText(t) == \A i \in 1..Len(t) : t[i] \notin InterimChars

\* C10: whenever the fragment list changes, userAnswer becomes the transcripts
\* of all final fragments in arrival order joined by single blanks; and no
\* interim transcript is part of userAnswer, of a text handed to scoring or of
\* a saved answer.
C10_AnswerIsJoinOfFinals ==
    [][ /\ (results' # results) => IsSpaceJoin(userAnswer', results')
        /\ NoInterimText(userAnswer')
        /\ \A c \in BagToSet(calls') : NoInterimText(c.userAns)
        /\ \A i \in DOMAIN userAnswers' : NoInterimText(userAnswers'[i].user_ans)
      ]_vars

\* C10 witness: several final fragments are joined while an interim one is shown
C10_Witness ==
    /\ Len(results) >= 2
    /\ IsSpaceJoin(userAnswer, results)
    /\ results[1].transcript # results[2].transcript
    /\ interimResult # <<>>

\* C11: once generateResult has been called (a scoring call is in flight and
\* isAiGenerating is set) the session eventually holds a non-null Evaluation with
\* isAiGenerating false; the step in which a call settles always stores an
\* Evaluation and clears isAiGenerating, and when the call was rejected the
\* Evaluation stored is {0, 'Unable to generate feedback.'}: the handler ends
\* normally on either outcome.
C11_EvaluatingEndsEvaluated ==
    /\ (isAiGenerating /\ calls # EmptyBag) ~> (aiResult # Null /\ ~isAiGenerating)
    /\ [][ /\ (BagCardinality(calls') < BagCardinality(calls))
              => (aiResult' # Null /\ ~isAiGenerating')
           /\ (toast' = "AI evaluation failed")
              => ( /\ BagCardinality(calls') = BagCardinality(calls) - 1
                   /\ aiResult' = Some([ratings |-> 0,
                                        feedback |-> <<"Unable to generate feedback.">>])
                   /\ ~isAiGenerating' )
         ]_vars

\* C11 witness: a rejected scoring call has ended in the stored sentinel
C11_Witness ==
    /\ toast = "AI evaluation failed"
    /\ aiResult = Some([ratings |-> 0, feedback |-> <<"Unable to generate feedback.">>])
    /\ ~isAiGenerating
    /\ calls = EmptyBag

\* the final fragments delivered since capture was last started
SinceStart == SubSeq(results, startedAt + 1, Len(results))

\* C12: the step that discards the Evaluation ('record again') leaves the
\* accumulated answer empty and capture running; and while capture runs, after
\* 'record again' as after a plain start, the accumulated answer is the join of
\* the final fragments delivered since that start and of no earlier one.
C12_RestartResetsTranscript ==
    [][ /\ (aiResult # Null /\ aiResult' = Null)
              => (userAnswer' = <<>> /\ isRecording')
        /\ isRecording'
              => userAnswer' = Combined(SinceStart')
      ]_vars

\* C13: a change of the question prop leaves the accumulated answer empty, the
\* Evaluation null and the session idle (not recording, not evaluating); and
\* every answer document inserted carries an Evaluation that was computed for
\* the question the document is stored under.
C13_QuestionChangeDiscardsState ==
    [][ /\ (question' # question)
              => ( /\ userAnswer' = <<>>
                   /\ aiResult' = Null
                   /\ ~isRecording'
                   /\ ~isAiGenerating' )
        /\ (Len(userAnswers') > Len(userAnswers))
              => ( /\ saves[1].scored # Null
                   /\ saves[1].scored[1].qst = userAnswers'[Len(userAnswers')].question )
      ]_vars

\* C14: a save attempt that ends without an insert and without 'Already
\* answered' (its existence query or its insert failed) shows 'Failed to save
\* answer'; and the step that shows that notice ends the attempt with the
\* Evaluation, the accumulated answer, the collection and capture as they were,
\* loading false and the dialog closed, so that Save Result can be pressed and
\* confirmed again.
C14_SaveFailureRecoverable ==
    [][ /\ ( /\ Len(saves') < Len(saves)
             /\ userAnswers' = userAnswers
             /\ toast' # "Already answered" )
              => toast' = "Failed to save answer"
        /\ (toast' = "Failed to save answer")
              => ( /\ saves # <<>>
                   /\ saves' = Tail(saves)
                   /\ aiResult' = aiResult
                   /\ userAnswer' = userAnswer
                   /\ userAnswers' = userAnswers
                   /\ isRecording' = isRecording
                   /\ ~loading'
                   /\ ~open' )
      ]_vars

\* C14 witness: the insert of an attempt has just failed, with nothing stored
\* for the question, and the session still holds the Evaluation and the answer
C14_Witness ==
    /\ toast = "Failed to save answer"
    /\ aiResult # Null
    /\ userAnswer # <<>>
    /\ ExistingAnswers = {}
    /\ saves = <<>>
    /\ ~loading
    /\ ~open

\* C15: with two tabs of one user on one question, an insert is made by a tab
\* whose own existence query returned empty earlier, whatever the collection
\* holds by then, and every inserted document is stored under that user and
\* that question; the collection holds at most one answer per tab. (That two
\* answers for the pair are reached is C15_Witness.)
C15_CheckThenWriteNotAtomic ==
    /\ [](Cardinality(ExistingAnswers) <= Cardinality(Tabs))
    /\ [][ (Len(userAnswers') > Len(userAnswers)) =>
             \E t \in Tabs :
                 /\ tabs[t].save # Null
                 /\ tabs[t].save[1].phase = "addDoc"
                 /\ tabs[t].save[1].snapEmpty
                 /\ tabs'[t].save = Null
                 /\ LET d == userAnswers'[Len(userAnswers')]
                    IN  /\ d.userId = userId
                        /\ d.question = FirstQuestion.question
                        /\ d.user_ans = tabs[t].save[1].user_ans
         ]_vars

\* C15 witness: both tabs have saved, and the collection holds two answers of
\* the user to the question
C15_Witness ==
    /\ Cardinality(ExistingAnswers) = 2
    /\ \A t \in Tabs : tabs[t].toast = "Answer saved successfully"

\* C18: every answer document inserted carries the Evaluation of a scoring call
\* whose userAns argument was exactly the text stored in its user_ans field.
C18_SavedAnswerIsScoredAnswer ==
    [][ (Len(userAnswers') > Len(userAnswers)) =>
            LET doc == userAnswers'[Len(userAnswers')]
                att == saves[1]
            IN  /\ att.scored # Null
                /\ doc.feedback = att.aiResult.feedback
                /\ doc.rating = att.aiResult.ratings
                /\ doc.user_ans = att.scored[1].userAns
      ]_vars

(* ------------------- properties of generateResult ---------------------- *)

\* the text holds a 'Rating:' label followed, after white space only, by a digit
RatingStarts(text) ==
    {i \in 1..Len(text) :
        /\ LowerLex(text[i]) = "rating:"
        /\ \E j \in (i + 1)..Len(text) :
              /\ text[j] \in Digits
              /\ \A k \in (i + 1)..(j - 1) : IsSpace(text[k])}

HasRating(text) == RatingStarts(text) # {}

\* the text holds a 'Feedback:' label
FeedbackLabels(text) == {i \in 1..Len(text) : LowerLex(text[i]) = "feedback:"}

HasFeedback(text) == FeedbackLabels(text) # {}

MinOf(S) == CHOOSE i \in S : \A j \in S : i <= j
MaxOf(S) == CHOOSE i \in S : \A j \in S : i >= j

\* s without the blanks before its first and after its last non-blank lexeme
Core(s) == IF NonBlank(s) = {} THEN <<>> ELSE SubSeq(s, MinOf(NonBlank(s)), MaxOf(NonBlank(s)))

\* the decimal number written by the digits that follow the first rated label
FirstRating(text) ==
    LET i == MinOf(RatingStarts(text))
        j == MinOf({k \in (i + 1)..Len(text) : text[k] \in Digits})
        e == MinOf({k \in j..(Len(text) + 1) : k > Len(text) \/ text[k] \notin Digits})
        Pow10(n) == IF n = 0 THEN 1 ELSE IF n = 1 THEN 10 ELSE IF n = 2 THEN 100
                    ELSE IF n = 3 THEN 1000 ELSE IF n = 4 THEN 10000
                    ELSE IF n = 5 THEN 100000 ELSE 1000000
        Place(k) == DigitVal(text[k]) * Pow10(e - 1 - k)
        RECURSIVE Total(_)
        Total(k) == IF k >= e THEN 0 ELSE Place(k) + Total(k + 1)
    IN  Total(j)

\* the text after the first 'Feedback:' label
AfterFirstFeedback(text) ==
    SubSeq(text, MinOf(FeedbackLabels(text)) + 1, Len(text))

FixedFeedback == {<<"No feedback generated.">>, <<"Unable to generate feedback.">>}

ExampleText == <<"Rating:", " ", "3", "\n", "Feedback:", " ", "Needs more detail.">>

Degraded ==
    \/ ~evalResp.ok
    \/ ~HasRating(evalResp.text)
    \/ ~HasFeedback(evalResp.text)

\* C16: when the Evaluation that generateResult returned and the session
\* stored is a degraded one, a notice has been shown for it.
C16_DegradedEvaluationNoticed ==
    (evalOut # Null /\ aiResult = evalOut /\ Degraded) => toast # "none"

(* ----------------- properties of FormMockInterview --------------------- *)

\* generateAiResponse has returned and the write of the document is under way
Generated == formPc = "write"

\* the cases in which generation has to fall back
FallbackCase ==
    \/ ~aiText.ok
    \/ aiText.text = <<>>
    \/ BracketMatch(aiText.text) = <<>>
    \/ ~JSONParse(BracketMatch(aiText.text)).ok
    \/ JSONParse(BracketMatch(aiText.text)).val = <<>>

\* C8: when the service call fails or its text holds no array that decodes to
\* a non-empty list, generateAiResponse returns the fixed five questions made
\* from the job context; and what it returns never has fewer than 5 items.
C8_FallbackOfFive ==
    Generated =>
        /\ FallbackCase =>
              /\ Len(aiQuestions) = 5
              /\ aiQuestions = FallbackQuestions(formData)
        /\ Len(aiQuestions) >= 5

\* the lists of exactly 5 objects with a string question and a string answer
FiveItemLists == [1..5 -> {"{A}", "{B}"}]

ValuesOf(items) == [k \in 1..Len(items) |-> LiteralValue(items[k])]

\* the lists of five valid objects whose JSON text is part of text
ArraysIn(text) ==
    {items \in FiveItemLists :
        \E i \in Opens(text), j \in Closes(text) :
            /\ i < j
            /\ SubSeq(text, i, j) \in {ArrayText(items, FALSE), ArrayText(items, TRUE)}}

\* C9: when the text of the service holds a valid JSON array of exactly 5
\* question/answer objects, generateAiResponse returns those 5 items in order
\* and onSubmit writes that list to the interview document.
C9_ValidArrayReturned ==
    (formPc \in {"write", "navigated"} /\ aiText.ok) =>
        \A items \in ArraysIn(aiText.text) :
            /\ aiQuestions = ValuesOf(items)
            /\ formPc = "navigated"
                  => interviews[Len(interviews)].questions = ValuesOf(items)

\* v is a record with a string question and a string answer
IsQuestionAnswerPair(v) ==
    v.kind = "object" /\ v.question # Undefined /\ v.answer # Undefined

IsQuestionSet(qs) ==
    Len(qs) <= 5 /\ \A i \in 1..Len(qs) : IsQuestionAnswerPair(qs[i])

\* C17: what generateAiResponse returns, and what onSubmit writes to the
\* interview document, has at most 5 items, each a record with a string
\* question and a string answer.
C17_ItemsAreQuestionAnswerPairs ==
    /\ formPc \in {"write", "navigated"} => IsQuestionSet(aiQuestions)
    /\ \A i \in DOMAIN interviews : IsQuestionSet(interviews[i].questions)

====
